---- MODULE Spec2Model ----
(***************************************************************************)
(* Restatement_Process.py: the rule-table loader, the message evaluator,   *)
(* the archival write and the status writeback of RestatementProcessor,    *)
(* and main().                                                             *)
(*                                                                         *)
(* Text is a sequence of one-character strings; an empty spreadsheet cell  *)
(* (openpyxl None, pandas NaN) is the empty sequence.  Rows of the sheet   *)
(* are sequences of six cells (columns A..F); the header row is kept apart *)
(* from the data rows, so data row k of the model is sheet row k + 1 and   *)
(* pandas row index k - 1.                                                 *)
(*                                                                         *)
(* Two specifications:                                                     *)
(*   Spec      the operations of RestatementProcessor called in pipeline   *)
(*             order on a processor constructed with the parameters in the *)
(*             order __init__ declares them;                               *)
(*   SpecMain  main() as written, stage by stage.                          *)
(***************************************************************************)
EXTENDS Integers, Sequences, FiniteSets, TLC

VARIABLES
    pc,                 \* position of the caller (Spec) or of main (SpecMain)
    today,              \* date.today(), a day number; weekday is today % 7
    fileCond,           \* what opening the workbook file does
    disk,               \* the workbook on disk: [header, rows, named]
    wb,                 \* self.wb: [some, val]
    auto_ws,            \* self.auto_ws is set (the sheet is wb.val's rows)
    mapping_df,         \* self.mapping_df: [some, columns, rows]
    mapping_dict,       \* self.mapping_dict: [some, val]
    archive_folder,     \* self.archive_folder
    mailbox_name,       \* self.mailbox_name
    save_dir,           \* the run's make_import_archive_path(pbd)
    folder,             \* self.folder: [some, msgs]
    items,              \* self.items: [some, val]
    excel_doc_updates,  \* self.excel_doc_updates: [some, val]
    archive,            \* the SaveAsFile calls that succeeded, in order
    events,             \* every SaveAsFile call, in order, with its result
    nomatch,            \* the "No match for" log lines, in order
    errlog,             \* the "Error processing message i" log lines
    saved_logged,       \* the count of line 306, <<>> before it is logged
    exc,                \* the exception the last call raised, "none" if none
    syncs,              \* history: the last two writebacks, arguments and table
    stages,             \* history: the methods that were entered
    load_failed         \* history: loading the rule table has failed

vars == <<pc, today, fileCond, disk, wb, auto_ws, mapping_df, mapping_dict,
          archive_folder, mailbox_name, save_dir, folder, items,
          excel_doc_updates, archive, events, nomatch, errlog, saved_logged,
          exc, syncs, stages, load_failed>>

----------------------------------------------------------------------------
(* Bounds of the model *)

MaxRows == 2      \* data rows of the rule table
MaxMsgs == 2      \* messages in the Outlook folder

(* Program constants *)

MAIL == 43
EXCEL_FILE == "EXCEL_FILE"
SHARED_MAILBOX == "SHARED_MAILBOX"
FOLDER_NAME == "FOLDER_NAME"
BASE_PATH == "BASE_PATH"

----------------------------------------------------------------------------
(* Text *)

Empty == <<>>
Saved == <<"S", "a", "v", "e", "d">>
NanText == <<"n", "a", "n">>

\* str(cell) of a pandas cell: NaN prints as 'nan'
PyStr(cell) == IF cell = Empty THEN NanText ELSE cell

LowerChar(c) ==
    CASE c = "A" -> "a"
      [] c = "D" -> "d"
      [] c = "N" -> "n"
      [] c = "R" -> "r"
      [] c = "Z" -> "z"
      [] OTHER -> c

Lower(s) == [i \in 1..Len(s) |-> LowerChar(s[i])]

RECURSIVE LStrip(_)
LStrip(s) == IF s # <<>> /\ Head(s) = " " THEN LStrip(Tail(s)) ELSE s

RECURSIVE RStrip(_)
RStrip(s) ==
    IF s # <<>> /\ s[Len(s)] = " " THEN RStrip(SubSeq(s, 1, Len(s) - 1)) ELSE s

Strip(s) == RStrip(LStrip(s))

\* str(x).lower().strip()
LowerStrip(x) == Strip(Lower(x))

\* os.path.normcase on Windows, where Outlook runs
NormCase(s) == [i \in 1..Len(s) |-> IF s[i] = "/" THEN "\\" ELSE LowerChar(s[i])]

\* fnmatch.fnmatchcase for patterns of literals, * and ?
RECURSIVE GlobMatch(_, _)
GlobMatch(name, pat) ==
    IF pat = <<>> THEN name = <<>>
    ELSE IF Head(pat) = "*"
         THEN GlobMatch(name, Tail(pat))
              \/ (name # <<>> /\ GlobMatch(Tail(name), pat))
         ELSE /\ name # <<>>
              /\ (Head(pat) = "?" \/ Head(pat) = Head(name))
              /\ GlobMatch(Tail(name), Tail(pat))

fnmatch(name, pat) == GlobMatch(NormCase(name), NormCase(pat))

IllegalChars == {"<", ">", ":", "\"", "/", "\\", "|", "?", "*"}

\* re.sub(r'[<>:"/\\|?*]', '_', save_name)
Sanitize(s) == [i \in 1..Len(s) |-> IF s[i] \in IllegalChars THEN "_" ELSE s[i]]

\* os.path.join(dir, name) for a name without separator or drive
PathJoin(dir, name) == <<dir, name>>

----------------------------------------------------------------------------
(* Dates *)

RECURSIVE LastWeekday(_)
LastWeekday(d) == IF d % 7 >= 5 THEN LastWeekday(d - 1) ELSE d

RECURSIVE BackBusinessDays(_, _)
BackBusinessDays(d, k) ==
    IF k = 0 THEN d
    ELSE BackBusinessDays(d - 1, IF (d - 1) % 7 < 5 THEN k - 1 ELSE k)

get_prior_business_days(n) ==
    IF n = 0 THEN LastWeekday(today) ELSE BackBusinessDays(today, n)

make_import_archive_path(reference_date) ==
    BASE_PATH \o "/COB " \o ToString(reference_date)

\* strftime to the day, and to the second
FmtDate(d) == <<"date", d>>
FmtTime(t) == <<"time", t.s>>
\* str(duration).split('.')[0]
FmtDuration(d) == <<"dur", d.s>>

----------------------------------------------------------------------------
(* The rule table *)

None == [some |-> FALSE, val |-> <<>>]
Some(v) == [some |-> TRUE, val |-> v]

SeqsUpTo(S, n) == UNION {[1..k -> S] : k \in 0..n}

\* Header cells as written in the workbook, and df.columns.str.strip().str.lower()
ColNorm(h) ==
    CASE h = "Sender" -> "sender"
      [] h = " Subject" -> "subject"
      [] h = "Attachment" -> "attachment"
      [] h = "SaveName" -> "savename"
      [] h = "Status " -> "status"
      [] h = "State" -> "state"
      [] h = "Comments" -> "comments"
      [] OTHER -> h

Headers ==
    { <<"Sender", " Subject", "Attachment", "SaveName", "Status ", "Comments">>,
      <<"Sender", " Subject", "Attachment", "SaveName", "State", "Comments">> }

\* Data rows: sender, subject, attachment, savename, E, F
RowChoices ==
    { << <<" ", "A">>, <<"R", " ">>, <<"*">>,      <<"x">>,      Empty, Empty >>,
      << <<"a">>,      <<"r">>,      <<"D", "*">>, <<"/", "x">>, Saved, <<"c">> >>,
      << <<"a">>,      Empty,        <<"?">>,      <<" ", "y">>, Saved, Empty >>,
      << <<"a">>,      <<"r">>,      <<"b">>,      <<"z">>,      Empty, Empty >> }

NamedCells == {"CBD", "PBD", "P2BD", "Start_Time", "End_Time", "Execution_Time"}

Workbooks ==
    { [header |-> h, rows |-> r, named |-> [n \in NamedCells |-> Empty]] :
        h \in Headers, r \in SeqsUpTo(RowChoices, MaxRows) }

FileConds == {"ok", "KeyError", "IOError", "nosheet"}

\* The column letters of the sheet
ColE == 5
ColF == 6

\* auto_ws[f"{col}{row}"].value; a cell below the last row is empty
CellValue(rows, col, row) ==
    IF row - 1 \in 1..Len(rows) THEN rows[row - 1][col] ELSE Empty

\* auto_ws[...].value = v, on a row the sheet has
SetCell(rows, col, row, v) == [rows EXCEPT ![row - 1][col] = v]

\* The loop of reset_excel_template from sheet row `row` on
RECURSIVE ClearStatus(_, _)
ClearStatus(rows, row) ==
    IF CellValue(rows, ColE, row) # Empty
    THEN ClearStatus(SetCell(SetCell(rows, ColE, row, Empty), ColF, row, Empty),
                     row + 1)
    ELSE rows

\* df.columns.get_loc(name): the 0-based position, or KeyError (-1 here)
HasLoc(columns, name) == \E i \in 1..Len(columns) : columns[i] = name
get_loc(columns, name) == (CHOOSE i \in 1..Len(columns) : columns[i] = name) - 1

\* row[name] of a DataFrame row
Field(columns, row, name) == row[get_loc(columns, name) + 1]

required_cols == {"sender", "subject", "attachment", "savename", "status"}

\* mapping_dict.setdefault(key, []).append(value)
SetDefaultAppend(d, key, value) ==
    IF key \in DOMAIN d THEN [d EXCEPT ![key] = Append(@, value)]
    ELSE d @@ (key :> <<value>>)

\* The dictionary after the first n rows of df.iterrows()
RECURSIVE DictOfRows(_, _, _)
DictOfRows(columns, rows, n) ==
    IF n = 0 THEN <<>>
    ELSE LET row == rows[n]
             key == << LowerStrip(PyStr(Field(columns, row, "sender"))),
                       LowerStrip(PyStr(Field(columns, row, "subject"))) >>
             value == [AttachmentPattern |->
                           LowerStrip(PyStr(Field(columns, row, "attachment"))),
                       SaveName |-> Strip(PyStr(Field(columns, row, "savename"))),
                       RowIndex |-> n - 1]
         IN SetDefaultAppend(DictOfRows(columns, rows, n - 1), key, value)

----------------------------------------------------------------------------
(* The messages of the Outlook folder *)

\* failAt = n: the n-th SaveAsFile call made for the message raises (0: none)
Msg(class, sender, subject, names, time, failAt) ==
    [Class |-> class, SenderEmailAddress |-> sender, Subject |-> subject,
     Attachments |-> [j \in 1..Len(names) |-> [FileName |-> names[j]]],
     ReceivedTime |-> time, failAt |-> failAt]

MsgChoices ==
    { Msg(MAIL, <<" ", "A">>, <<"R">>, << <<"D", "a">>, <<"b">> >>, 3, 0),
      Msg(MAIL, <<"a">>, <<"r", " ">>, << <<"D">>, <<"b">> >>, 4, 1),
      Msg(MAIL, <<"a">>, <<"r">>, << <<"d">>, <<"b">> >>, 5, 2),
      Msg(MAIL + 3, <<"a">>, <<"r">>, << <<"d">> >>, 6, 0),
      Msg(MAIL, <<"a">>, <<"r">>, << <<"d">> >>, 1, 0) }

Folders == {m \in SUBSET MsgChoices : Cardinality(m) <= MaxMsgs}

FilterTimes == {2}

\* folder.Items.Restrict("[ReceivedTime] >= ...")
Restrict(msgs, filter_time) == {m \in msgs : m.ReceivedTime >= filter_time}

\* items.Sort("[ReceivedTime]", True): newest first
RECURSIVE SortDescending(_)
SortDescending(msgs) ==
    IF msgs = {} THEN <<>>
    ELSE LET newest == CHOOSE m \in msgs :
                           \A o \in msgs : o.ReceivedTime <= m.ReceivedTime
         IN <<newest>> \o SortDescending(msgs \ {newest})

----------------------------------------------------------------------------
(* match_and_save_attachments, as a function of its inputs.  The state of  *)
(* the loops is a record: updates, the files written, every SaveAsFile     *)
(* call, the log lines, the number of SaveAsFile calls made for the        *)
(* current message, the flag `matched` and whether an exception is in      *)
(* flight.                                                                 *)

StartState ==
    [updates |-> <<>>, archive |-> <<>>, events |-> <<>>, nomatch |-> <<>>,
     errlog |-> <<>>, calls |-> 0, matched |-> FALSE, raised |-> FALSE]

\* updates[key] = value
Put(d, key, value) ==
    [k \in DOMAIN d \cup {key} |-> IF k = key THEN value ELSE d[k]]

\* Lines 286-296: the rule matched; write the file and record the outcome
SaveMatch(st, dir, i, j, msg, match) ==
    LET safe_name == Sanitize(match.SaveName)
        save_path == PathJoin(dir, safe_name)
        n == st.calls + 1
        call == [msg |-> i, att |-> j, row |-> match.RowIndex,
                 path |-> save_path, ok |-> msg.failAt # n]
    IN IF msg.failAt = n
       THEN [st EXCEPT !.calls = n, !.events = Append(@, call), !.raised = TRUE]
       ELSE [st EXCEPT !.calls = n,
                       !.events = Append(@, call),
                       !.archive = Append(@, call),
                       !.updates = Put(@, match.RowIndex, [Status |-> Saved]),
                       !.matched = TRUE]

\* Lines 284-296: one candidate rule of one attachment
EvalCandidate(st, dir, i, j, msg, attachment_name, match) ==
    IF st.raised \/ ~fnmatch(attachment_name, match.AttachmentPattern)
    THEN st
    ELSE SaveMatch(st, dir, i, j, msg, match)

RECURSIVE EvalCandidates(_, _, _, _, _, _, _, _)
EvalCandidates(st, dir, i, j, msg, attachment_name, possible_matches, k) ==
    IF k > Len(possible_matches) THEN st
    ELSE EvalCandidates(
             EvalCandidate(st, dir, i, j, msg, attachment_name,
                           possible_matches[k]),
             dir, i, j, msg, attachment_name, possible_matches, k + 1)

\* Lines 280-299: one attachment
EvalAttachment(st, dir, i, j, msg, possible_matches) ==
    IF st.raised THEN st
    ELSE LET attachment_name == LowerStrip(msg.Attachments[j].FileName)
             r == EvalCandidates([st EXCEPT !.matched = FALSE], dir, i, j, msg,
                                 attachment_name, possible_matches, 1)
         IN IF ~r.raised /\ ~r.matched
            THEN [r EXCEPT !.nomatch = Append(@, <<i, j>>)]
            ELSE r

RECURSIVE EvalAttachments(_, _, _, _, _, _)
EvalAttachments(st, dir, i, j, msg, possible_matches) ==
    IF j > Len(msg.Attachments) THEN st
    ELSE EvalAttachments(EvalAttachment(st, dir, i, j, msg, possible_matches),
                         dir, i, j + 1, msg, possible_matches)

\* Lines 272-299: the body of the try
MessageBody(st, dir, dict, i, msg) ==
    IF msg.Class = MAIL /\ Len(msg.Attachments) > 0
    THEN IF ~dict.some
         THEN [st EXCEPT !.raised = TRUE]     \* None.get: AttributeError
         ELSE LET sender == LowerStrip(msg.SenderEmailAddress)
                  subject == LowerStrip(msg.Subject)
                  key == <<sender, subject>>
                  possible_matches ==
                      IF key \in DOMAIN dict.val THEN dict.val[key] ELSE <<>>
              IN EvalAttachments([st EXCEPT !.calls = 0], dir, i, 1, msg,
                                 possible_matches)
    ELSE st

\* A handler that undoes what the failed message had recorded
EvalMessageRollback(st, dir, dict, i, msg) ==
    LET r == MessageBody(st, dir, dict, i, msg)
    IN IF r.raised
       THEN [r EXCEPT !.raised = FALSE, !.updates = st.updates,
                      !.errlog = Append(@, i - 1)]
       ELSE r

\* Lines 271-302: try, and except Exception: log and go on
EvalMessage(st, dir, dict, i, msg) ==
    LET r == MessageBody(st, dir, dict, i, msg)
    IN IF r.raised
       THEN [r EXCEPT !.raised = FALSE, !.errlog = Append(@, i - 1)]
       ELSE r

\* Lines 268-302: for i, message in enumerate(self.items)
RECURSIVE EvalMessages(_, _, _, _, _)
EvalMessages(st, dir, dict, msgs, i) ==
    IF i > Len(msgs) THEN st
    ELSE EvalMessages(EvalMessage(st, dir, dict, i, msgs[i]), dir, dict, msgs,
                      i + 1)

----------------------------------------------------------------------------
(* The state before the constructor runs *)

Days == {9, 13}                          \* a Wednesday and a Sunday
StartTimes == {[s |-> 10, us |-> 3]}
SyncArgs == { <<[s |-> 20, us |-> 0], [s |-> 10, us |-> 5]>>,
              <<[s |-> 21, us |-> 7], [s |-> 11, us |-> 0]>> }

NoFrame == [some |-> FALSE, columns |-> <<>>, rows |-> <<>>]

Init ==
    /\ pc = "new"
    /\ today \in Days
    /\ fileCond \in FileConds
    /\ disk \in Workbooks
    /\ wb = None
    /\ auto_ws = FALSE
    /\ mapping_df = NoFrame
    /\ mapping_dict = None
    /\ archive_folder = ""
    /\ mailbox_name = ""
    /\ save_dir = ""
    /\ folder = None
    /\ items = None
    /\ excel_doc_updates = None
    /\ archive = <<>>
    /\ events = <<>>
    /\ nomatch = <<>>
    /\ errlog = <<>>
    /\ saved_logged = <<>>
    /\ exc = "none"
    /\ syncs = <<>>
    /\ stages = {}
    /\ load_failed = FALSE

----------------------------------------------------------------------------
(* The methods of RestatementProcessor.  Each leaves pc to its caller and  *)
(* reports an exception it lets through in exc'.                           *)

reset_excel_template(cbd, pbd, p2bd, script_start) ==
    /\ stages' = stages \cup {"reset_excel_template"}
    /\ CASE fileCond = "IOError" ->
              \* load_workbook raises something other than KeyError
              /\ exc' = "FileNotFoundError"
              /\ load_failed' = TRUE
              /\ UNCHANGED <<wb, auto_ws>>
         [] fileCond = "KeyError" ->
              \* except KeyError: log and return
              /\ exc' = "none"
              /\ load_failed' = TRUE
              /\ UNCHANGED <<wb, auto_ws>>
         [] fileCond = "nosheet" ->
              \* wb[AUTOMATED_SHEET] raises KeyError: log and return
              /\ exc' = "none"
              /\ load_failed' = TRUE
              /\ wb' = Some(disk)
              /\ auto_ws' = FALSE
         [] OTHER ->
              /\ exc' = "none"
              /\ load_failed' = load_failed
              /\ wb' = Some([disk EXCEPT
                        !.named = [@ EXCEPT !["CBD"] = FmtDate(cbd),
                                            !["PBD"] = FmtDate(pbd),
                                            !["P2BD"] = FmtDate(p2bd),
                                            !["Start_Time"] = FmtTime(script_start)],
                        !.rows = ClearStatus(@, 2)])
              /\ auto_ws' = TRUE
    /\ UNCHANGED <<today, fileCond, disk, mapping_df, mapping_dict,
                   archive_folder, mailbox_name, save_dir, folder, items,
                   excel_doc_updates, archive, events, nomatch, errlog,
                   saved_logged, syncs>>

build_dictionary_from_excel ==
    /\ stages' = stages \cup {"build_dictionary_from_excel"}
    /\ IF ~auto_ws \/ fileCond # "ok"
       THEN \* self.auto_ws.title or pd.read_excel raises: log, return None, None
            /\ exc' = "none"
            /\ load_failed' = TRUE
            /\ UNCHANGED <<mapping_df, mapping_dict>>
       ELSE LET columns == [i \in 1..Len(disk.header) |-> ColNorm(disk.header[i])]
                rows == disk.rows
            IN /\ mapping_df' = [some |-> TRUE, columns |-> columns, rows |-> rows]
               /\ IF \E col \in required_cols : ~HasLoc(columns, col)
                  THEN /\ exc' = "KeyError"
                       /\ load_failed' = TRUE
                       /\ UNCHANGED mapping_dict
                  ELSE /\ exc' = "none"
                       /\ load_failed' = load_failed
                       /\ mapping_dict' =
                              IF Len(rows) = 0 THEN mapping_dict
                              ELSE Some(DictOfRows(columns, rows, Len(rows)))
    /\ UNCHANGED <<today, fileCond, disk, wb, auto_ws, archive_folder,
                   mailbox_name, save_dir, folder, items, excel_doc_updates,
                   archive, events, nomatch, errlog, saved_logged, syncs>>

\* Whether the recipient resolves and the folder exists is Outlook's answer
connect_outlook(folder_name) ==
    /\ stages' = stages \cup {"connect_outlook"}
    /\ \E answer \in {"ok", "unresolved", "nofolder"} :
          IF answer = "ok"
          THEN /\ \E msgs \in Folders : folder' = Some(msgs)
               /\ exc' = "none"
          ELSE /\ folder' = folder
               /\ exc' = "Exception"
    /\ UNCHANGED <<today, fileCond, disk, wb, auto_ws, mapping_df, mapping_dict,
                   archive_folder, mailbox_name, save_dir, items,
                   excel_doc_updates, archive, events, nomatch, errlog,
                   saved_logged, syncs, load_failed>>

\* get_filter_time_func is [callable, value]: get_items calls it
get_items(get_filter_time_func) ==
    /\ stages' = stages \cup {"get_items"}
    /\ IF ~folder.some
       THEN exc' = "ValueError" /\ items' = items
       ELSE IF ~get_filter_time_func.callable
       THEN exc' = "TypeError" /\ items' = items
       ELSE /\ exc' = "none"
            /\ items' = Some(SortDescending(
                            Restrict(folder.val, get_filter_time_func.value)))
    /\ UNCHANGED <<today, fileCond, disk, wb, auto_ws, mapping_df, mapping_dict,
                   archive_folder, mailbox_name, save_dir, folder,
                   excel_doc_updates, archive, events, nomatch, errlog,
                   saved_logged, syncs, load_failed>>

match_and_save_attachments ==
    /\ stages' = stages \cup {"match_and_save_attachments"}
    /\ IF ~items.some
       THEN /\ exc' = "ValueError"
            /\ UNCHANGED <<excel_doc_updates, archive, events, nomatch, errlog,
                           saved_logged>>
       ELSE LET r == EvalMessages(StartState, archive_folder, mapping_dict,
                                  items.val, 1)
            IN /\ exc' = "none"
               /\ excel_doc_updates' = Some(r.updates)
               /\ archive' = archive \o r.archive
               /\ events' = events \o r.events
               /\ nomatch' = nomatch \o r.nomatch
               /\ errlog' = errlog \o r.errlog
               \* "Total attachments saved: {len(self.excel_doc_updates)}"
               /\ saved_logged' = <<Cardinality(DOMAIN r.updates)>>
    /\ UNCHANGED <<today, fileCond, disk, wb, auto_ws, mapping_df, mapping_dict,
                   archive_folder, mailbox_name, save_dir, folder, items, syncs,
                   load_failed>>

\* The loop of update_excel_status over the keys of self.excel_doc_updates
RECURSIVE WriteStatuses(_, _, _, _)
WriteStatuses(rows, idxs, updates, status_col) ==
    IF idxs = {} THEN rows
    ELSE LET idx == CHOOSE x \in idxs : TRUE
             excel_row == idx + 2
         IN WriteStatuses(SetCell(rows, status_col, excel_row, updates[idx].Status),
                          idxs \ {idx}, updates, status_col)

\* A writeback that adds the duration to the one already in the cell
StampEndAccumulating(named, script_end, duration) ==
    [named EXCEPT !["End_Time"] = FmtTime(script_end),
                  !["Execution_Time"] =
                      IF @ = Empty THEN FmtDuration(duration)
                      ELSE <<"dur", @[2] + duration.s>>]

\* Lines 323-326: the End_Time and Execution_Time cells
StampEnd(named, script_end, duration) ==
    [named EXCEPT !["End_Time"] = FmtTime(script_end),
                  !["Execution_Time"] = FmtDuration(duration)]

\* The exception the loop of lines 315-319 raises on its first pass, if any
StatusLoopError ==
    IF DOMAIN excel_doc_updates.val = {} THEN "none"
    ELSE IF ~mapping_df.some THEN "AttributeError"
    ELSE IF ~HasLoc(mapping_df.columns, "Status") THEN "KeyError"
    ELSE IF ~auto_ws THEN "AttributeError"
    ELSE "none"

update_excel_status(script_end, duration) ==
    /\ stages' = stages \cup {"update_excel_status"}
    /\ IF ~excel_doc_updates.some
       THEN exc' = "ValueError" /\ UNCHANGED <<wb, disk>>
       ELSE IF StatusLoopError # "none"
       THEN exc' = StatusLoopError /\ UNCHANGED <<wb, disk>>
       ELSE IF ~wb.some
       THEN \* _get_named_cell_value(None)
            exc' = "AttributeError" /\ UNCHANGED <<wb, disk>>
       ELSE LET updates == excel_doc_updates.val
                rows == IF DOMAIN updates = {} THEN wb.val.rows
                        ELSE WriteStatuses(
                                 wb.val.rows, DOMAIN updates, updates,
                                 get_loc(mapping_df.columns, "Status") + 1)
                table == [wb.val EXCEPT
                             !.rows = rows,
                             !.named = StampEnd(@, script_end, duration)]
            IN /\ exc' = "none"
               /\ wb' = Some(table)
               \* self.wb.save: a failure is logged and swallowed
               /\ \E saved \in BOOLEAN : disk' = IF saved THEN table ELSE disk
    /\ LET call == [args |-> <<script_end, duration>>, table |-> wb', exc |-> exc']
       IN syncs' = IF Len(syncs) < 2 THEN Append(syncs, call)
                   ELSE <<syncs[2], call>>
    /\ UNCHANGED <<today, fileCond, auto_ws, mapping_df, mapping_dict,
                   archive_folder, mailbox_name, save_dir, folder, items,
                   excel_doc_updates, archive, events, nomatch, errlog,
                   saved_logged, load_failed>>

cleanup ==
    /\ folder' = None
    /\ items' = None
    /\ wb' = None
    /\ auto_ws' = FALSE
    /\ mapping_df' = NoFrame
    /\ mapping_dict' = None
    /\ UNCHANGED <<today, fileCond, disk, archive_folder, mailbox_name, save_dir,
                   excel_doc_updates, archive, events, nomatch, errlog,
                   saved_logged, exc, syncs, stages, load_failed>>

----------------------------------------------------------------------------
(* The callers *)

cbd == get_prior_business_days(0)
pbd == get_prior_business_days(1)
p2bd == get_prior_business_days(2)

Outcome(ok) == IF exc' = "none" THEN ok ELSE "raised"

\* RestatementProcessor(excel_file, archive_folder, mailbox_name)
Construct ==
    /\ pc = "new"
    /\ save_dir' = make_import_archive_path(pbd)
    /\ archive_folder' = save_dir'
    /\ mailbox_name' = SHARED_MAILBOX
    /\ pc' = "constructed"
    /\ UNCHANGED <<today, fileCond, disk, wb, auto_ws, mapping_df, mapping_dict,
                   folder, items, excel_doc_updates, archive, events, nomatch,
                   errlog, saved_logged, exc, syncs, stages, load_failed>>

Reset ==
    /\ pc = "constructed"
    /\ \E script_start \in StartTimes :
          reset_excel_template(cbd, pbd, p2bd, script_start)
    /\ pc' = Outcome("reset")

Build ==
    /\ pc = "reset"
    /\ build_dictionary_from_excel
    /\ pc' = Outcome("built")

Connect ==
    /\ pc = "built"
    /\ connect_outlook(FOLDER_NAME)
    /\ pc' = Outcome("connected")

GetItems ==
    /\ pc = "connected"
    /\ \E t \in FilterTimes : get_items([callable |-> TRUE, value |-> t])
    /\ pc' = Outcome("items")

Match ==
    /\ pc = "items"
    /\ match_and_save_attachments
    /\ pc' = Outcome("matched")

Update ==
    /\ pc \in {"matched", "synced"}
    /\ \E args \in SyncArgs : update_excel_status(args[1], args[2])
    /\ pc' = "synced"

Next == Construct \/ Reset \/ Build \/ Connect \/ GetItems \/ Match \/ Update

Spec == Init /\ [][Next]_vars

(* main(): lines 359-410.  get_items is handed the datetime that          *)
(* get_filter_time returned, so the stages after it are never reached.    *)

\* Lines 363-380: RestatementProcessor(EXCEL_FILE, SHARED_MAILBOX, save_dir)
MainStart ==
    /\ pc = "new"
    /\ save_dir' = make_import_archive_path(pbd)
    /\ archive_folder' = SHARED_MAILBOX
    /\ mailbox_name' = save_dir'
    /\ pc' = "constructed"
    /\ UNCHANGED <<today, fileCond, disk, wb, auto_ws, mapping_df, mapping_dict,
                   folder, items, excel_doc_updates, archive, events, nomatch,
                   errlog, saved_logged, exc, syncs, stages, load_failed>>

\* Line 384: processor.get_items(get_filter_time(pbd, hour=16, minute=0))
MainGetItems ==
    /\ pc = "connected"
    /\ get_items([callable |-> FALSE, value |-> pbd])
    /\ pc' = Outcome("items")

\* Lines 399-404: log the exception, sys.exit(1)
MainExcept ==
    /\ pc = "raised"
    /\ pc' = "exiting"
    /\ UNCHANGED <<today, fileCond, disk, wb, auto_ws, mapping_df, mapping_dict,
                   archive_folder, mailbox_name, save_dir, folder, items,
                   excel_doc_updates, archive, events, nomatch, errlog,
                   saved_logged, exc, syncs, stages, load_failed>>

\* Lines 406-410: finally, processor.cleanup()
MainFinally ==
    /\ pc = "exiting"
    /\ cleanup
    /\ pc' = "exited"

NextMain ==
    MainStart \/ Reset \/ Build \/ Connect \/ MainGetItems \/ MainExcept
    \/ MainFinally

SpecMain == Init /\ [][NextMain]_vars

----------------------------------------------------------------------------
(* What the properties below are stated with *)

Range(f) == {f[x] : x \in DOMAIN f}

RECURSIVE Ascending(_)
Ascending(S) ==
    IF S = {} THEN <<>>
    ELSE LET least == CHOOSE x \in S : \A y \in S : x <= y
         IN <<least>> \o Ascending(S \ {least})

IsPrefix(s, t) == Len(s) <= Len(t) /\ SubSeq(t, 1, Len(s)) = s

\* The position of the status column in a header row, 0 if it has none
StatusColumn(header) ==
    IF \E c \in 1..Len(header) : ColNorm(header[c]) = "status"
    THEN CHOOSE c \in 1..Len(header) : ColNorm(header[c]) = "status"
    ELSE 0

\* The table the run has loaded and its rows' keys, read off the cells
LoadedRows == mapping_df.rows
RuleKey(row) == <<LowerStrip(PyStr(row[1])), LowerStrip(PyStr(row[2]))>>
RulePattern(row) == LowerStrip(PyStr(row[3]))
MessageKey(msg) ==
    <<LowerStrip(msg.SenderEmailAddress), LowerStrip(msg.Subject)>>

IsMailWithAttachments(msg) == msg.Class = MAIL /\ Len(msg.Attachments) > 0

\* The row indexes of the rules attachment j of msg satisfies
MatchingRows(msg, j) ==
    IF ~IsMailWithAttachments(msg) THEN {}
    ELSE {k - 1 : k \in {n \in 1..Len(LoadedRows) :
              /\ RuleKey(LoadedRows[n]) = MessageKey(msg)
              /\ fnmatch(LowerStrip(msg.Attachments[j].FileName),
                         RulePattern(LoadedRows[n]))}}

\* The (attachment, row index) pairs of msg, attachments in delivery order
\* and rules in table order
RECURSIVE ExpectedFrom(_, _)
ExpectedFrom(msg, j) ==
    IF j > Len(msg.Attachments) THEN <<>>
    ELSE LET rows == Ascending(MatchingRows(msg, j))
         IN [n \in 1..Len(rows) |-> <<j, rows[n]>>] \o ExpectedFrom(msg, j + 1)

Expected(i) == ExpectedFrom(items.val[i], 1)

PairsOf(calls, i) ==
    LET OfMessage(c) == c.msg = i
        sel == SelectSeq(calls, OfMessage)
    IN [n \in 1..Len(sel) |-> <<sel[n].att, sel[n].row>>]

\* The files written for message i, and the SaveAsFile calls made for it
SavedOf(i) == PairsOf(archive, i)
CallsOf(i) == PairsOf(events, i)

\* The row indexes of the SaveAsFile calls made for attachment j of message i
RowsCalled(i, j) ==
    LET OfAttachment(c) == c.msg = i /\ c.att = j
        sel == SelectSeq(events, OfAttachment)
    IN [n \in 1..Len(sel) |-> sel[n].row]

\* Message i is in an "Error processing message" log line
Raised(i) == (i - 1) \in Range(errlog)

Recorded(row) ==
    /\ row \in DOMAIN excel_doc_updates.val
    /\ excel_doc_updates.val[row].Status = Saved

Matched == pc \in {"matched", "synced"} /\ items.some /\ excel_doc_updates.some

----------------------------------------------------------------------------
(* The claims *)

\* C1: after update_excel_status, for every outcome recorded for rule row r,
\* the status cell of sheet row r + 2 holds 'Saved'.
C1_StatusWrittenByRowIndex ==
    (pc = "synced" /\ wb.some /\ excel_doc_updates.some) =>
        \A r \in DOMAIN excel_doc_updates.val :
            CellValue(wb.val.rows, StatusColumn(wb.val.header), r + 2) = Saved

\* C2: in a message, an attachment that satisfies N candidate rules of the
\* message's key has N archival writes performed for it, one SaveAsFile call
\* per satisfied rule in table order, and every rule whose write went through
\* has its outcome; matching does not stop at the first satisfied rule.
C2_EveryMatchWritten ==
    (Matched /\ mapping_dict.some) =>
        \A i \in 1..Len(items.val) :
            \A j \in 1..Len(items.val[i].Attachments) :
                /\ RowsCalled(i, j) = Ascending(MatchingRows(items.val[i], j))
                /\ \A n \in 1..Len(events) :
                       (events[n].msg = i /\ events[n].att = j /\ events[n].ok)
                           => Recorded(events[n].row)

\* C3: when reset_excel_template has completed, no data row of the sheet
\* carries a status.
C3_ResetClearsEveryStatus ==
    (pc = "reset" /\ auto_ws /\ StatusColumn(wb.val.header) # 0) =>
        \A row \in 2..(Len(wb.val.rows) + 1) :
            CellValue(wb.val.rows, StatusColumn(wb.val.header), row) = Empty

\* C4: when message i raised, every file written for message i or an earlier
\* one still has its outcome in the returned set, and every later message was
\* evaluated: its matches are written and recorded, up to its own failure.
C4_FailureKeepsResultsAndGoesOn ==
    Matched =>
        \A i \in 1..Len(items.val) :
            Raised(i) =>
                /\ \A n \in 1..Len(archive) :
                       archive[n].msg <= i => Recorded(archive[n].row)
                /\ \A k \in (i + 1)..Len(items.val) :
                       /\ IF Raised(k)
                          THEN IsPrefix(SavedOf(k), Expected(k))
                          ELSE SavedOf(k) = Expected(k)
                       /\ \A n \in 1..Len(SavedOf(k)) : Recorded(SavedOf(k)[n][2])

\* C4's case: a message raised after a file of it had been written, and a
\* later message had its attachment saved.
C4_Witness ==
    /\ Matched
    /\ \E i \in 1..Len(items.val) :
          /\ Raised(i)
          /\ SavedOf(i) # <<>>
          /\ \E k \in (i + 1)..Len(items.val) :
                SavedOf(k) # <<>> /\ SavedOf(k) = Expected(k)

\* C5: a SaveAsFile failure is isolated to its attachment: the other rules of
\* that attachment and the other attachments of the message are still tried,
\* so every expected SaveAsFile call of the message is made and all but the
\* failing one are recorded.
C5_WriteFailureIsolated ==
    (Matched /\ mapping_dict.some) =>
        \A n \in 1..Len(events) :
            ~events[n].ok =>
                /\ CallsOf(events[n].msg) = Expected(events[n].msg)
                /\ \A m \in 1..Len(events) :
                       (events[m].msg = events[n].msg /\ m # n) =>
                           Recorded(events[m].row)

\* C6: once loading the rule table has failed, main enters no later stage.
LaterStages ==
    {"connect_outlook", "get_items", "match_and_save_attachments",
     "update_excel_status"}

C6_LoadFailureIsFatal == load_failed => stages \cap LaterStages = {}

\* C7: every rule row is indexed under its lower-cased, trimmed sender and
\* subject cells, with its lower-cased, trimmed attachment cell as pattern,
\* an empty cell counting as the empty string.
ClaimedNorm(cell) == IF cell = Empty THEN <<>> ELSE Strip(Lower(cell))

C7_KeysNormalisedEmptyForAbsent ==
    (pc = "built" /\ mapping_dict.some) =>
        \A k \in 1..Len(LoadedRows) :
            \E key \in DOMAIN mapping_dict.val :
                \E n \in 1..Len(mapping_dict.val[key]) :
                    /\ mapping_dict.val[key][n].RowIndex = k - 1
                    /\ key = <<ClaimedNorm(LoadedRows[k][1]),
                               ClaimedNorm(LoadedRows[k][2])>>
                    /\ mapping_dict.val[key][n].AttachmentPattern =
                           ClaimedNorm(LoadedRows[k][3])

\* C8: in a run of main, every file written to the archive is in the run's
\* make_import_archive_path directory.  main never reaches
\* match_and_save_attachments (get_items raises TypeError), so archive stays
\* empty in SpecMain and no state shows a write.
C8_WritesUnderArchiveDir ==
    \A n \in 1..Len(archive) : archive[n].path[1] = save_dir

\* C9: update_excel_status applied a second time with the same end time and
\* duration leaves the table as the first application left it.
C9_WritebackIdempotent ==
    (Len(syncs) = 2 /\ syncs[1].args = syncs[2].args) =>
        syncs[2].table = syncs[1].table

\* C9's case: two applications with the same arguments, the second of which
\* went through and stamped the end time.
C9_Witness ==
    /\ Len(syncs) = 2
    /\ syncs[1].args = syncs[2].args
    /\ syncs[2].exc = "none"
    /\ syncs[2].table.val.named["End_Time"] # Empty

\* C10: the count of line 306 is the number of attachments written to the
\* archive.
C10_LoggedCountIsFilesSaved ==
    pc = "matched" => saved_logged = <<Len(archive)>>

====
